---- MODULE Spec2Model ----
(***************************************************************************)
(* The event-tracking workflow of the Slack bot: the reaction handler      *)
(* (handle_reaction_added) and the threaded-reply handler                  *)
(* (handle_message_event / handle_schedule_request) acting on one          *)
(* persisted EventTracking record, with the chat gateway, the calendar     *)
(* gateway and the persistence store as external collaborators whose calls *)
(* succeed or fail.  Every external call is one atomic step, so that       *)
(* concurrent Lambda invocations interleave between their calls.           *)
(***************************************************************************)
EXTENDS Integers, Sequences, FiniteSets, TLC

VARIABLES event, proposals, calendar, rh, mh, store, gen, ph, hook, calc, an

\* The state the webhook handlers act on; the state of the other entry
\* points (the webhook's url_verification answer, the duration recognizer
\* called on its own, the analysis job); and the state the webhook handlers
\* leave alone, which is the scheduled poster's and the other entry points'.
hvars == <<event, proposals, calendar, rh, mh>>
ovars == <<hook, calc, an>>
pvars == <<store, gen, ph, ovars>>
vars == <<event, proposals, calendar, rh, mh, store, gen, ph, hook, calc, an>>

(***************************** bounds **************************************)
\* Invocations handled one after another: a reaction invocation starts only
\* while fewer than MaxReactions reactions are recorded and fewer than
\* MaxProposals proposals are posted, a message invocation only while fewer
\* than MaxCalls calendar creation calls have been made.
MaxReactions == 3
MaxProposals == 2
MaxCalls == 2
\* The same for concurrent invocations.
MaxRaceReactions == 2
MaxRaceCalls == 1
\* Scheduled-poster invocations start only while fewer than MaxPosts messages
\* are posted and fewer than MaxUuids identifiers are generated.
MaxPosts == 2
MaxUuids == 4
\* The configured MEETING_PROPOSAL_THRESHOLD, read from the environment at
\* each invocation (the default is '3').
Threshold == 2

(************************** program constants ******************************)
\* extract_duration_from_message: the default duration in minutes.
DefaultDuration == 60
\* Optional[str] = None for calendar_event_id; calendar ids are 1, 2, ...
NoCalendarEvent == 0

None == "None"
NoEmail == ""

\* The concurrently running Lambda invocations of each handler.
RProcs == {"r1", "r2"}
MProcs == {"m1", "m2"}
\* The reply invocation that runs beside the reaction invocations.
OneReply == {"m1"}
PProcs == {"p1", "p2"}

\* Acting users of reaction events and the email users.info resolves for them
\* (profile.get('email', '')): U1 has an address, the others have none.
Users == {"U1", "U2", "U3"}
UserEmail(u) == IF u = "U1" THEN "u1@example.com" ELSE NoEmail

\* The (channel, ts) of the tracked post, and of some other message.
TrackedTs == "ts_tracked"
OtherTs == "ts_other"
MessageTs == {TrackedTs, OtherTs}
Channel == "C01"

\* reaction_added events: event_data with reaction, user, item.channel and
\* item.ts; a well-formed one, and the ones lacking one required field.
ReactionEvent(u, ts) ==
    [reaction |-> "thumbsup", user |-> u, channel |-> Channel, ts |-> ts]
MalformedReactionEvents ==
    {[ReactionEvent("U1", TrackedTs) EXCEPT ![f] = None] :
        f \in {"reaction", "user", "channel", "ts"}}

\* topic_id of the record: None for a question post, a stored topic otherwise.
TopicIds == {None, "topic1"}

\* Reply texts, by what the recognizers return for them.  An Optional value
\* is a sequence of length 0 (None) or 1: dt is the parsed start in minutes
\* of the day, dur the parsed duration in minutes.
NoReply == [dt |-> <<>>, dur |-> <<>>]
Replies == {[dt |-> <<>>, dur |-> <<>>],
            [dt |-> <<900>>, dur |-> <<>>]}

\* Outcomes of slack.post_message: the message is delivered and the response
\* has ok; the response lacks ok and nothing is delivered; the wrapper raises.
PostOutcomes == {"ok", "not_ok", "raise"}
\* handle_schedule_request never reads the response: by the wrapper's
\* contract a post that returns has been delivered, a failed one raises.
ReplyPostOutcomes == {"ok", "raise"}

\* A message the bot posts in a thread; kind is one of proposal, reprompt,
\* no_attendees, summary, error.
Msg(kind, ts, count) == [kind |-> kind, thread_ts |-> ts, count |-> count]

\* Operation results {'success': ..., 'action': ..., 'error': ...}; value is
\* reaction_count or calendar_event_id where the result carries one.
Result(success, action, error, value) ==
    [success |-> success, action |-> action, error |-> error, value |-> value]
NoResult == Result(FALSE, None, None, 0)

(************************** persistence store ******************************)
\* EventTracking as created by the scheduled poster.
NewEventTracking(topic_id) ==
    [slack_message_ts |-> TrackedTs,
     topic_id |-> topic_id,
     event_title |-> None,
     status |-> "collecting_reactions",
     reactions |-> <<>>,
     calendar_event_id |-> NoCalendarEvent]

\* A variant of the lookup below that does not compare the timestamp.
WrongFoundByMessage(ts, db_ok) == db_ok

\* DynamoDBClient.get_event_by_message: the item, or None when there is none
\* or the query raised (the exception is swallowed).
FoundByMessage(ts, db_ok) == db_ok /\ ts = event.slack_message_ts

\* A variant of the append below that puts the new reaction first.
WrongAddReaction(ev, user_id, user_email, db_ok) ==
    IF db_ok
    THEN [ev EXCEPT !.reactions =
              <<[user_id |-> user_id, user_email |-> user_email]>> \o @]
    ELSE ev

\* DynamoDBClient.add_reaction_to_event: list_append of one reaction record;
\* a failed update_item is swallowed and leaves the item as it was.
add_reaction_to_event(ev, user_id, user_email, db_ok) ==
    IF db_ok
    THEN [ev EXCEPT !.reactions =
              Append(@, [user_id |-> user_id, user_email |-> user_email])]
    ELSE ev

\* The EventStatus values of the model file.
EventStatuses == {"collecting_reactions", "scheduling", "completed", "cancelled"}

\* A variant of the update below that cancels a record when the status it
\* is given is the one the record already has.
WrongUpdateCancels(ev, status, db_ok) ==
    IF db_ok
    THEN [ev EXCEPT !.status = IF ev.status = status THEN "cancelled" ELSE status]
    ELSE ev

\* DynamoDBClient.update_event_status(id, status): SET #status = :status,
\* unconditionally; a failed update_item is swallowed (returns False).
update_event_status(ev, status, db_ok) ==
    IF db_ok THEN [ev EXCEPT !.status = status] ELSE ev

\* DynamoDBClient.update_event_status(id, status, calendar_event_id=...,
\* event_title=...): one SET of the three attributes.
update_event_status_kw(ev, status, calendar_event_id, event_title, db_ok) ==
    IF db_ok
    THEN [ev EXCEPT !.status = status,
                    !.calendar_event_id = calendar_event_id,
                    !.event_title = event_title]
    ELSE ev

(***************************** pure helpers ********************************)
\* handle_reaction_added: len(set(r['user_id'] for r in reactions)).
ReactionCount(reactions) ==
    Cardinality({reactions[i].user_id : i \in DOMAIN reactions})

\* EventTracking.get_participant_emails: the distinct non-empty emails.
get_participant_emails(reactions) ==
    {reactions[i].user_email : i \in {j \in DOMAIN reactions :
                                          reactions[j].user_email # NoEmail}}

\* EventTracking.get_participant_count: len(get_participant_emails()).
get_participant_count(reactions) == Cardinality(get_participant_emails(reactions))

\* A variant of the decision below with a strict comparison.
WrongShouldPropose(reaction_count, status) ==
    reaction_count > Threshold /\ status = "collecting_reactions"

\* A variant of the decision below that proposes only at the threshold
\* itself.
WrongShouldProposeExact(reaction_count, status) ==
    reaction_count = Threshold /\ status = "collecting_reactions"

\* A variant of the decision below that forgets the threshold.
WrongShouldProposeAlways(reaction_count, status) ==
    status = "collecting_reactions"

\* handle_reaction_added: reaction_count >= threshold and status ==
\* 'collecting_reactions'.
ShouldPropose(reaction_count, status) ==
    reaction_count >= Threshold /\ status = "collecting_reactions"

\* A variant of the status mapping below that always answers 200.
WrongStatusCode(result) == 200

\* lambda_handler, lines 391-394 and 406-409 (and 428-434 for an exception
\* caught by lambda_handler itself): 200 if result['success'] else 500.
StatusCode(result) == IF result.success THEN 200 ELSE 500

(************************** reaction handler *******************************)
RIdle == [pc |-> "idle", user |-> None, email |-> NoEmail, ts |-> None,
          status |-> None, count |-> 0, response |-> None, sent |-> <<>>,
          result |-> NoResult, statusCode |-> 0, missing |-> {}]

\* The invocation has its result; lambda_handler still has to return it.
RDone(p, result) ==
    [rh[p] EXCEPT !.pc = "done", !.result = result,
                  !.statusCode = StatusCode(result),
                  !.user = None, !.email = NoEmail]

RRunning(p) == rh[p].pc # "idle"

\* A variant of the validation below that does not look at the timestamp.
WrongHasRequiredFields(event_data) ==
    /\ event_data.reaction # None
    /\ event_data.user # None
    /\ event_data.channel # None

\* Lines 34-47: all([reaction, user_id, channel_id, message_ts]).
HasRequiredFields(event_data) ==
    /\ event_data.reaction # None
    /\ event_data.user # None
    /\ event_data.channel # None
    /\ event_data.ts # None

\* The required fields absent from an event.
MissingFields(event_data) ==
    {f \in {"reaction", "user", "channel", "ts"} : event_data[f] = None}

\* Lines 34-60: field validation, get_event_by_message, then
\* slack.get_user_info, whose raise is caught at line 115.  Neither call
\* reads anything another invocation writes.  The slot keeps which fields
\* the event lacked.
RStart(p, event_data, db_ok, api_ok) ==
    /\ ~RRunning(p)
    /\ rh' = [rh EXCEPT ![p] =
         LET u == event_data.user
             ts == event_data.ts
             r == [RIdle EXCEPT !.missing = MissingFields(event_data)]
         IN
         IF ~HasRequiredFields(event_data)
         THEN [r EXCEPT !.pc = "done",
                 !.result = Result(FALSE, None, "Missing required fields", 0),
                 !.statusCode = StatusCode(Result(FALSE, None, "Missing required fields", 0))]
         ELSE IF ~FoundByMessage(ts, db_ok)
         THEN [r EXCEPT !.pc = "done", !.ts = ts,
                 !.result = Result(TRUE, "ignored", None, 0),
                 !.statusCode = StatusCode(Result(TRUE, "ignored", None, 0))]
         ELSE IF ~api_ok
         THEN [r EXCEPT !.pc = "done", !.ts = ts,
                 !.result = Result(FALSE, None, "Failed to get user info", 0),
                 !.statusCode = StatusCode(Result(FALSE, None, "Failed to get user info", 0))]
         ELSE [r EXCEPT !.pc = "append", !.user = u, !.ts = ts,
                        !.email = UserEmail(u)]]
    /\ UNCHANGED <<event, proposals, calendar, mh, pvars>>

\* lambda_handler, lines 385-386 and 423-434: SlackClient() raises (the
\* secret cannot be fetched); lambda_handler catches it and answers with
\* success False.
RInitFails(p) ==
    /\ ~RRunning(p)
    /\ rh' = [rh EXCEPT ![p] =
         [RIdle EXCEPT !.pc = "done",
                 !.result = Result(FALSE, None, "client init failed", 0),
                 !.statusCode = StatusCode(Result(FALSE, None, "client init failed", 0))]]
    /\ UNCHANGED <<event, proposals, calendar, mh, pvars>>

\* Lines 62-68: db.add_reaction_to_event; its return value is not read.
RAppend(p, db_ok) ==
    /\ rh[p].pc = "append"
    /\ event' = add_reaction_to_event(event, rh[p].user, rh[p].email, db_ok)
    /\ rh' = [rh EXCEPT ![p].pc = "reread"]
    /\ UNCHANGED <<proposals, calendar, mh, pvars>>

\* Lines 70-83 and 109-113: db.get_event, the distinct count and the
\* threshold decision.  get_event returns None when get_item raised, and
\* event_tracking.get then raises AttributeError, caught at line 115.
RReread(p, db_ok) ==
    /\ rh[p].pc = "reread"
    /\ rh' = [rh EXCEPT ![p] =
         IF ~db_ok
         THEN RDone(p, Result(FALSE, None, "AttributeError", 0))
         ELSE LET cnt == ReactionCount(event.reactions)
                  r == [rh[p] EXCEPT !.status = event.status, !.count = cnt]
              IN IF ShouldPropose(cnt, event.status)
                 THEN [r EXCEPT !.pc = "post"]
                 ELSE [r EXCEPT !.pc = "done",
                         !.result = Result(TRUE, "reaction_recorded", None, cnt),
                         !.statusCode =
                             StatusCode(Result(TRUE, "reaction_recorded", None, cnt))]]
    /\ UNCHANGED <<event, proposals, calendar, mh, pvars>>

\* Lines 87-96 and 109-113: the proposal post in the thread of message_ts.
RPost(p, outcome) ==
    /\ rh[p].pc = "post"
    /\ proposals' = IF outcome = "ok" THEN proposals + 1 ELSE proposals
    /\ rh' = [rh EXCEPT ![p] =
         CASE outcome = "ok" ->
                [rh[p] EXCEPT !.pc = "update", !.response = outcome,
                    !.sent = Append(@, Msg("proposal", rh[p].ts, rh[p].count))]
           [] outcome = "not_ok" ->
                [RDone(p, Result(TRUE, "reaction_recorded", None, rh[p].count))
                    EXCEPT !.response = outcome]
           [] OTHER ->
                [RDone(p, Result(FALSE, None, "Failed to post message", 0))
                    EXCEPT !.response = outcome]]
    /\ UNCHANGED <<event, calendar, mh, pvars>>

\* Lines 97-107: db.update_event_status(status='scheduling'); its return
\* value is not read.
RUpdate(p, db_ok) ==
    /\ rh[p].pc = "update"
    /\ event' = update_event_status(event, "scheduling", db_ok)
    /\ rh' = [rh EXCEPT ![p] =
         RDone(p, Result(TRUE, "meeting_proposed", None, rh[p].count))]
    /\ UNCHANGED <<proposals, calendar, mh, pvars>>

\* lambda_handler, lines 389-394: the response is returned and the
\* invocation ends.
RFinish(p) ==
    /\ rh[p].pc = "done"
    /\ rh' = [rh EXCEPT ![p] = RIdle]
    /\ UNCHANGED <<event, proposals, calendar, mh, pvars>>

(********************** schedule resolution helpers ************************)
\* A variant of the extraction below that yields midnight for a text the
\* recognizer rejects.
WrongExtractDatetime(text) == IF text.dt = <<>> THEN <<0>> ELSE text.dt

\* extract_datetime_from_message: the recognizer's datetime, or None.
extract_datetime_from_message(text) == text.dt

\* extract_duration_from_message: duration if duration else 60.
extract_duration_from_message(text) ==
    IF text.dur # <<>> /\ text.dur[1] # 0 THEN text.dur[1] ELSE DefaultDuration

\* A variant of the end time below that forgets the duration.
WrongEndTime(start_time, duration_minutes) == start_time

\* calculate_end_time: start_time + timedelta(minutes=duration_minutes).
calculate_end_time(start_time, duration_minutes) == start_time + duration_minutes

\* Lines 211-217: the title from the topic, or the generic one.
TopicTitle == "topic - meeting"
GenericTitle == "team meeting"

\* A variant of the attendee set below that keeps empty emails.
WrongAttendeeEmails(reactions) ==
    {reactions[i].user_email : i \in DOMAIN reactions}

\* A variant of the attendee set below that collects user ids.
WrongAttendeeUserIds(reactions) ==
    {reactions[i].user_id : i \in {j \in DOMAIN reactions :
                                       reactions[j].user_email # NoEmail}}

\* Lines 220-221: set(r['user_email'] for r in reactions if r.get('user_email')).
AttendeeEmails(reactions) ==
    {reactions[i].user_email : i \in {j \in DOMAIN reactions :
                                          reactions[j].user_email # NoEmail}}

\* A variant of the status test below that only excludes collecting_reactions.
WrongSchedulingStatus(status) == status # "collecting_reactions"

\* Line 194 (and line 326): status == 'scheduling'.
SchedulingStatus(status) == status = "scheduling"

(*************************** message handler *******************************)
MIdle == [pc |-> "idle", ts |-> None, direct |-> FALSE, text |-> NoReply,
          status |-> None, reactions |-> <<>>, topic_id |-> None,
          title |-> None, start |-> 0, end |-> 0, attendees |-> {},
          cal |-> NoCalendarEvent, calls |-> 0, err |-> None,
          sent |-> <<>>, result |-> NoResult, statusCode |-> 0,
          in_thread |-> TRUE, bot_id |-> FALSE]

\* The operation has its result; for a webhook invocation lambda_handler
\* maps it to the response status, a direct caller gets the result itself.
MDone(p, result) ==
    [mh[p] EXCEPT !.pc = "done", !.result = result,
                  !.statusCode = IF mh[p].direct THEN 0 ELSE StatusCode(result)]

MRunning(p) == mh[p].pc # "idle"

\* A raise inside handle_schedule_request's try: control goes to the except
\* clause at line 277, which posts the error notice.
MRaise(p, err) == [mh[p] EXCEPT !.pc = "error_notice", !.err = err]

\* Lines 219-229: with the title decided, the attendee check.
MAfterTitle(m, title) ==
    LET a == AttendeeEmails(m.reactions)
    IN [m EXCEPT !.title = title, !.attendees = a,
                 !.pc = IF a = {} THEN "no_attendees" ELSE "create"]

\* A variant of the filter below that lets bot messages through.
WrongIgnoredReason(in_thread, bot) ==
    IF ~in_thread THEN "not_thread_message" ELSE None

\* handle_message_event, lines 310-321: a message without thread_ts, then a
\* message with bot_id, is ignored; None when the message is processed.
IgnoredReason(in_thread, bot) ==
    IF ~in_thread THEN "not_thread_message"
    ELSE IF bot THEN "bot_message"
    ELSE None

\* handle_message_event, lines 309-340 (direct = FALSE), or a direct call of
\* handle_schedule_request with the record's identifier (direct = TRUE).
\* The slot keeps whether the event had thread_ts and bot_id.
MStart(p, ts, direct, in_thread, bot, text, db_ok) ==
    /\ ~MRunning(p)
    /\ mh' = [mh EXCEPT ![p] =
         LET m == [MIdle EXCEPT !.in_thread = in_thread, !.bot_id = bot,
                                !.ts = IF in_thread THEN ts ELSE None]
             reason == IgnoredReason(in_thread, bot)
         IN
         IF direct
         THEN [MIdle EXCEPT !.pc = "get_event", !.ts = ts, !.direct = TRUE,
                            !.text = text]
         ELSE IF reason # None
         THEN [m EXCEPT !.pc = "done",
                 !.result = Result(TRUE, "ignored", reason, 0),
                 !.statusCode = StatusCode(Result(TRUE, "ignored", reason, 0))]
         ELSE IF ~(FoundByMessage(ts, db_ok) /\ SchedulingStatus(event.status))
         THEN [m EXCEPT !.pc = "done",
                 !.result = Result(TRUE, "ignored", "not_scheduling", 0),
                 !.statusCode = StatusCode(Result(TRUE, "ignored", "not_scheduling", 0))]
         ELSE [m EXCEPT !.pc = "get_event", !.text = text]]
    /\ UNCHANGED <<event, proposals, calendar, rh, pvars>>

\* lambda_handler, lines 398-400 and 423-434: SlackClient() or
\* CalendarClient() raises; lambda_handler catches it and answers with
\* success False.
MInitFails(p) ==
    /\ ~MRunning(p)
    /\ mh' = [mh EXCEPT ![p] =
         [MIdle EXCEPT !.pc = "done",
                 !.result = Result(FALSE, None, "client init failed", 0),
                 !.statusCode = StatusCode(Result(FALSE, None, "client init failed", 0))]]
    /\ UNCHANGED <<event, proposals, calendar, rh, pvars>>

\* Lines 184-229 up to the next external call: db.get_event, the status
\* branch, date and duration extraction, and, for a record without topic,
\* the title and the attendee check.
MGetEvent(p, db_ok) ==
    /\ mh[p].pc = "get_event"
    /\ mh' = [mh EXCEPT ![p] =
         IF ~db_ok
         THEN MDone(p, Result(FALSE, None, "Event not found", 0))
         ELSE IF ~SchedulingStatus(event.status)
         THEN [MDone(p, Result(TRUE, "no_action", None, 0))
                 EXCEPT !.status = event.status]
         ELSE LET parsed_dt == extract_datetime_from_message(mh[p].text)
                  m == [mh[p] EXCEPT !.status = event.status]
              IN IF parsed_dt = <<>>
                 THEN [m EXCEPT !.pc = "reprompt"]
                 ELSE LET duration == extract_duration_from_message(mh[p].text)
                          r == [m EXCEPT !.start = parsed_dt[1],
                                  !.end = calculate_end_time(parsed_dt[1], duration),
                                  !.reactions = event.reactions,
                                  !.topic_id = event.topic_id]
                      IN IF event.topic_id # None
                         THEN [r EXCEPT !.pc = "get_topic"]
                         ELSE MAfterTitle(r, GenericTitle)]
    /\ UNCHANGED <<event, proposals, calendar, rh, pvars>>

\* Lines 198-205: the re-prompt; the response of post_message is not read.
MReprompt(p, outcome) ==
    /\ mh[p].pc = "reprompt"
    /\ UNCHANGED proposals
    /\ mh' = [mh EXCEPT ![p] =
         IF outcome = "raise"
         THEN MRaise(p, "Failed to post message")
         ELSE [MDone(p, Result(TRUE, "asked_datetime_again", None, 0))
                 EXCEPT !.sent = IF outcome = "ok"
                                 THEN Append(@, Msg("reprompt", mh[p].ts, 0))
                                 ELSE @]]
    /\ UNCHANGED <<event, calendar, rh, pvars>>

\* Lines 212-229: db.get_topic returns None when the topic is absent or
\* get_item raised, and topic.get then raises AttributeError.
MGetTopic(p, found) ==
    /\ mh[p].pc = "get_topic"
    /\ mh' = [mh EXCEPT ![p] =
         IF found THEN MAfterTitle(mh[p], TopicTitle)
         ELSE MRaise(p, "AttributeError")]
    /\ UNCHANGED <<event, proposals, calendar, rh, pvars>>

\* Lines 223-229: the notice that no attendee has an email.
MNoAttendees(p, outcome) ==
    /\ mh[p].pc = "no_attendees"
    /\ UNCHANGED proposals
    /\ mh' = [mh EXCEPT ![p] =
         IF outcome = "raise"
         THEN MRaise(p, "Failed to post message")
         ELSE [MDone(p, Result(FALSE, None, "No attendees", 0))
                 EXCEPT !.sent = IF outcome = "ok"
                                 THEN Append(@, Msg("no_attendees", mh[p].ts, 0))
                                 ELSE @]]
    /\ UNCHANGED <<event, calendar, rh, pvars>>

\* Lines 231-241: calendar.create_event; a created event gets a fresh id.
MCreate(p, api_ok) ==
    /\ mh[p].pc = "create"
    /\ calendar' = [calls |-> calendar.calls + 1,
                    created |-> IF api_ok THEN calendar.created + 1
                                ELSE calendar.created]
    /\ mh' = [mh EXCEPT ![p] =
         IF api_ok
         THEN [mh[p] EXCEPT !.pc = "update", !.calls = @ + 1,
                            !.cal = calendar.created + 1]
         ELSE [MRaise(p, "Failed to create event") EXCEPT !.calls = @ + 1]]
    /\ UNCHANGED <<event, proposals, rh, pvars>>

\* Lines 243-249: db.update_event_status(status='completed', ...); its return
\* value is not read.
MUpdate(p, db_ok) ==
    /\ mh[p].pc = "update"
    /\ event' = update_event_status_kw(event, "completed", mh[p].cal,
                                       mh[p].title, db_ok)
    /\ mh' = [mh EXCEPT ![p].pc = "summary"]
    /\ UNCHANGED <<proposals, calendar, rh, pvars>>

\* Lines 251-273: the completion summary; the response is not read.
MSummary(p, outcome) ==
    /\ mh[p].pc = "summary"
    /\ UNCHANGED proposals
    /\ mh' = [mh EXCEPT ![p] =
         IF outcome = "raise"
         THEN MRaise(p, "Failed to post message")
         ELSE [MDone(p, Result(TRUE, "event_created", None, mh[p].cal))
                 EXCEPT !.sent = IF outcome = "ok"
                                 THEN Append(@, Msg("summary", mh[p].ts,
                                                    Len(mh[p].reactions)))
                                 ELSE @]]
    /\ UNCHANGED <<event, calendar, rh, pvars>>

\* Lines 277-294: the except clause posts the error notice and returns the
\* failure.  When this post raises too, the exception leaves
\* handle_schedule_request: handle_message_event catches it (lines 342-346),
\* a direct caller gets the exception.
MErrorNotice(p, outcome) ==
    /\ mh[p].pc = "error_notice"
    /\ UNCHANGED proposals
    /\ mh' = [mh EXCEPT ![p] =
         IF outcome = "raise"
         THEN MDone(p, Result(FALSE, IF mh[p].direct THEN "raised" ELSE None,
                              "Failed to post message", 0))
         ELSE [MDone(p, Result(FALSE, None, mh[p].err, 0))
                 EXCEPT !.sent = IF outcome = "ok"
                                 THEN Append(@, Msg("error", mh[p].ts, 0))
                                 ELSE @]]
    /\ UNCHANGED <<event, calendar, rh, pvars>>

\* lambda_handler, lines 403-409: the response is returned and the
\* invocation ends.
MFinish(p) ==
    /\ mh[p].pc = "done"
    /\ mh' = [mh EXCEPT ![p] = MIdle]
    /\ UNCHANGED <<event, proposals, calendar, rh, pvars>>

(*************************** scheduled poster ******************************)
\* post_type of the scheduled poster's lambda_handler.
PostTypes == {"random_topic", "member_question"}

\* Results of post_random_topic and post_question_to_member:
\* {'success': ..., 'message_ts': ..., 'error': ...}.
PResult(success, message_ts, error) ==
    [success |-> success, message_ts |-> message_ts, error |-> error]

\* A poster invocation: ts is the timestamp the chat gateway returned (0:
\* none yet), topic_id the generated topic identifier (<<>>: None).
PIdle == [pc |-> "idle", post_type |-> None, ts |-> 0, topic_id |-> <<>>,
          result |-> PResult(FALSE, 0, None)]

PRunning(p) == ph[p].pc # "idle"

\* A variant of the record below that takes the identifier for the timestamp.
WrongPostedEventTracking(id, message_ts, topic_id) ==
    [event_tracking_id |-> id,
     slack_message_ts |-> 1,
     channel_id |-> Channel,
     topic_id |-> topic_id,
     event_title |-> None,
     status |-> "collecting_reactions",
     reactions |-> <<>>,
     calendar_event_id |-> NoCalendarEvent]

\* post_random_topic lines 145-152, post_question_to_member lines 240-247:
\* the EventTracking for the message just posted.
PostedEventTracking(id, message_ts, topic_id) ==
    [event_tracking_id |-> id,
     slack_message_ts |-> message_ts,
     channel_id |-> Channel,
     topic_id |-> topic_id,
     event_title |-> None,
     status |-> "collecting_reactions",
     reactions |-> <<>>,
     calendar_event_id |-> NoCalendarEvent]

\* DynamoDBClient.put_event: put_item keyed by event_tracking_id; a failed
\* put_item is swallowed (returns False).
put_event(table, item, db_ok) ==
    IF db_ok
    THEN {r \in table : r.event_tracking_id # item.event_tracking_id} \cup {item}
    ELSE table

\* lambda_handler lines 286-294 with post_random_topic lines 112-120
\* (select_random_topic generates the topic identifier; loading the topics
\* may raise) or post_question_to_member lines 178-182 (no user found).
PStart(p, post_type, selected) ==
    /\ ~PRunning(p)
    /\ gen.ts < MaxPosts
    /\ gen.uuid < MaxUuids
    /\ IF selected /\ post_type = "random_topic"
       THEN /\ gen' = [gen EXCEPT !.uuid = @ + 1]
            /\ ph' = [ph EXCEPT ![p] =
                 [PIdle EXCEPT !.pc = "post", !.post_type = post_type,
                               !.topic_id = <<gen.uuid + 1>>]]
       ELSE /\ gen' = gen
            /\ ph' = [ph EXCEPT ![p] =
                 IF selected
                 THEN [PIdle EXCEPT !.pc = "post", !.post_type = post_type]
                 ELSE [PIdle EXCEPT !.pc = "done", !.post_type = post_type,
                         !.result = PResult(FALSE, 0,
                            IF post_type = "random_topic"
                            THEN "load_topics failed" ELSE "No user found")]]
    /\ UNCHANGED <<store, hvars, ovars>>

\* Lines 122-132 and 215-225: slack.post_message; a delivered message gets a
\* fresh timestamp from the chat gateway.
PPost(p, outcome) ==
    /\ ph[p].pc = "post"
    /\ IF outcome = "ok"
       THEN /\ gen' = [gen EXCEPT !.ts = @ + 1]
            /\ ph' = [ph EXCEPT ![p].pc = "put_item", ![p].ts = gen.ts + 1]
       ELSE /\ gen' = gen
            /\ ph' = [ph EXCEPT ![p].pc = "done",
                        ![p].result = PResult(FALSE, 0, "Failed to post message")]
    /\ UNCHANGED <<store, hvars, ovars>>

\* Lines 134-142 and 227-237: db.put_topic, or db.put_question with a
\* generated question identifier; the return value is not read.
PPutItem(p) ==
    /\ ph[p].pc = "put_item"
    /\ gen' = IF ph[p].post_type = "member_question"
              THEN [gen EXCEPT !.uuid = @ + 1] ELSE gen
    /\ ph' = [ph EXCEPT ![p].pc = "put_event"]
    /\ UNCHANGED <<store, hvars, ovars>>

\* Lines 144-161 and 239-256: the EventTracking with a generated identifier,
\* db.put_event (return value not read) and the success result.
PPutEvent(p, db_ok) ==
    /\ ph[p].pc = "put_event"
    /\ gen' = [gen EXCEPT !.uuid = @ + 1]
    /\ store' = put_event(store,
                   PostedEventTracking(gen.uuid + 1, ph[p].ts, ph[p].topic_id),
                   db_ok)
    /\ ph' = [ph EXCEPT ![p].pc = "done",
                        ![p].result = PResult(TRUE, ph[p].ts, None)]
    /\ UNCHANGED <<hvars, ovars>>

\* lambda_handler lines 296-299: the response is returned.
PFinish(p) ==
    /\ ph[p].pc = "done"
    /\ ph' = [ph EXCEPT ![p] = PIdle]
    /\ UNCHANGED <<store, gen, hvars, ovars>>

(************************** url verification *******************************)
\* Challenge tokens are sequences of characters; the quote and the backslash
\* are the characters json.dumps escapes.
MaxChallengeLen == 2
ChallengeChars == {"a", "\"", "\\"}
Challenges ==
    UNION {[1..n -> ChallengeChars] : n \in 1..MaxChallengeLen}

\* The response of lambda_handler to a request that is not an event
\* callback: given is body.get('challenge') as an Optional value, challenge
\* the string literal json.dumps writes for the echoed token.
NoResponse == [given |-> <<>>, statusCode |-> 0, challenge |-> <<>>,
               error |-> None]

\* json.dumps on a str: a backslash before each quote and backslash.
RECURSIVE JsonEscape(_)
JsonEscape(s) ==
    IF s = <<>> THEN <<>>
    ELSE (IF Head(s) \in {"\"", "\\"} THEN <<"\\", Head(s)>> ELSE <<Head(s)>>)
         \o JsonEscape(Tail(s))

\* What a JSON reader makes of the characters between the quotes.
RECURSIVE JsonUnescape(_)
JsonUnescape(s) ==
    IF s = <<>> THEN <<>>
    ELSE IF Head(s) = "\\" /\ Len(s) >= 2
         THEN <<s[2]>> \o JsonUnescape(Tail(Tail(s)))
         ELSE <<Head(s)>> \o JsonUnescape(Tail(s))

\* The challenge field a JSON reader finds in the response body.
ChallengeField(literal) ==
    IF Len(literal) < 2 THEN <<>>
    ELSE JsonUnescape(SubSeq(literal, 2, Len(literal) - 1))

\* A variant of the body below that writes the token between quotes as it is.
WrongChallengeBody(challenge) == <<"\"">> \o challenge \o <<"\"">>

\* Line 375: json.dumps({'challenge': body['challenge']}), the literal of
\* the value.
ChallengeBody(challenge) == <<"\"">> \o JsonEscape(challenge) \o <<"\"">>

\* lambda_handler, lines 364-376 and 423-434: a url_verification request.
\* body['challenge'] raises KeyError when the key is absent, and the except
\* clause answers 500.
UrlVerification(given) ==
    /\ hook' = IF given = <<>>
               THEN [given |-> given, statusCode |-> 500, challenge |-> <<>>,
                     error |-> "'challenge'"]
               ELSE [given |-> given, statusCode |-> 200,
                     challenge |-> ChallengeBody(given[1]), error |-> None]
    /\ UNCHANGED <<hvars, store, gen, ph, calc, an>>

(************************* duration recognizer *****************************)
\* A duration text is a sequence of tokens: a run of digits with its value,
\* the units 時間 ("jikan") and 分 ("fun"), the decimal point, a blank, the
\* English words hours and minutes, and any other word.  Two runs of digits
\* are never adjacent.
MaxTokens == 4
DurationNumbers == {0, 2, 30}
Num(n) == [k |-> "num", v |-> n]
Tok(k) == [k |-> k, v |-> 0]
Tokens ==
    {Num(n) : n \in DurationNumbers}
        \cup {Tok(k) : k \in {"jikan", "fun", "dot", "space", "hours",
                              "minutes", "word"}}
DurationTexts ==
    {t \in UNION {[1..n -> Tokens] : n \in 0..MaxTokens} :
        \A i \in 1..(Len(t) - 1) : ~(t[i].k = "num" /\ t[i + 1].k = "num")}

\* The last call of the duration recognizer: its argument, and its Optional
\* result as a sequence of length 0 (None) or 1.
NoCalc == [text |-> <<>>, result |-> <<>>]

\* str.strip(): the text without its leading and trailing blanks.
RECURSIVE LStrip(_)
LStrip(s) ==
    IF s # <<>> /\ Head(s).k = "space" THEN LStrip(Tail(s)) ELSE s
RECURSIVE RStrip(_)
RStrip(s) ==
    IF s # <<>> /\ s[Len(s)].k = "space"
    THEN RStrip(SubSeq(s, 1, Len(s) - 1)) ELSE s
Strip(s) == RStrip(LStrip(s))

\* The token at position i of s is of kind k.
IsTok(s, i, k) == i <= Len(s) /\ s[i].k = k

\* int(float("h.f") * 60) for runs of digits h and f below 100.
HoursToMinutes(h, f) ==
    h * 60 + ((f * 60) \div (IF f < 10 THEN 10 ELSE 100))

\* parse_duration: re.match anchors each pattern at the start of the
\* stripped text and ignores what follows the match.
parse_duration(duration_str) ==
    IF duration_str = <<>> THEN <<>>
    ELSE LET s == Strip(duration_str)
         IN \* (\d+)時間(?:(\d+)分)?
            IF IsTok(s, 1, "num") /\ IsTok(s, 2, "jikan")
            THEN <<s[1].v * 60
                   + (IF IsTok(s, 3, "num") /\ IsTok(s, 4, "fun")
                      THEN s[3].v ELSE 0)>>
            \* (\d+)分
            ELSE IF IsTok(s, 1, "num") /\ IsTok(s, 2, "fun")
            THEN <<s[1].v>>
            \* (\d+\.?\d*)時間
            ELSE IF IsTok(s, 1, "num") /\ IsTok(s, 2, "dot") /\ IsTok(s, 3, "jikan")
            THEN <<s[1].v * 60>>
            ELSE IF IsTok(s, 1, "num") /\ IsTok(s, 2, "dot") /\ IsTok(s, 3, "num")
                    /\ IsTok(s, 4, "jikan")
            THEN <<HoursToMinutes(s[1].v, s[3].v)>>
            \* int(duration_str)
            ELSE IF Len(s) = 1 /\ IsTok(s, 1, "num")
            THEN <<s[1].v>>
            ELSE <<>>

\* A call of parse_duration on a text; calc records one call.
ParseDuration(text) ==
    /\ calc = NoCalc
    /\ calc' = [text |-> text, result |-> parse_duration(text)]
    /\ UNCHANGED <<hvars, store, gen, ph, hook, an>>

(*************************** analysis job **********************************)
\* analyze_channel_history on the messages conversations.history returns.  A
\* message is described by what the loop reads of it: whether it has bot_id,
\* whether it has a subtype, whether its text has at least 10 characters,
\* and how many (reaction, user) pairs Slack holds for it.
MaxMessages == 2
MaxMessageReactions == 2
\* Line 142: a message with fewer reactions is skipped.
MinReactionCount == 2

ChannelMessages ==
    [bot_id : BOOLEAN, subtype : BOOLEAN, long : BOOLEAN,
     nreact : 0..MaxMessageReactions]
Histories == UNION {[1..n -> ChannelMessages] : n \in 0..MaxMessages}

\* SlackClient.get_reactions: one {'user_id', 'reaction'} entry for each
\* user of each reaction of the message.
get_reactions(message) ==
    [i \in 1..message.nreact |-> [user_id |-> "U", reaction |-> "thumbsup"]]

\* Line 139: sum(r.get('count', 0) for r in reactions).
RECURSIVE reaction_count(_)
reaction_count(reactions) ==
    IF reactions = <<>> THEN 0
    ELSE (IF "count" \in DOMAIN Head(reactions) THEN Head(reactions).count
          ELSE 0)
         + reaction_count(Tail(reactions))

\* Lines 128-133: the messages the loop skips before asking for reactions.
Skipped(message) == message.bot_id \/ message.subtype \/ ~message.long

\* The run of the job: the fetched messages, the index of the last message
\* handled, the indices of the messages whose Conversation was put in the
\* table, len(analyzed_conversations), and the returned result.
AIdle == [pc |-> "idle", messages |-> <<>>, i |-> 0, stored |-> <<>>,
          analyzed |-> 0, success |-> FALSE, analyzed_count |-> 0]

\* The except clause of lines 194-198.
AFailed(a) == [a EXCEPT !.pc = "done", !.success = FALSE]

\* Lines 110-124: slack.get_channel_history returns the messages or raises.
AStart(messages, api_ok) ==
    /\ an.pc = "idle"
    /\ an' = IF api_ok
             THEN [AIdle EXCEPT !.pc = "loop", !.messages = messages]
             ELSE AFailed(AIdle)
    /\ UNCHANGED <<hvars, store, gen, ph, hook, calc>>

\* Lines 126-178, one iteration: the filters, slack.get_reactions, which
\* returns or raises, the reaction filter, and db.put_conversation, whose
\* failure is swallowed and whose return value is not read.
AMessage(api_ok, db_ok) ==
    /\ an.pc = "loop"
    /\ an.i < Len(an.messages)
    /\ LET i == an.i + 1
           message == an.messages[i]
           next == [an EXCEPT !.i = i]
       IN an' = IF Skipped(message) THEN next
                ELSE IF ~api_ok THEN AFailed(next)
                ELSE IF reaction_count(get_reactions(message)) < MinReactionCount
                THEN next
                ELSE [next EXCEPT
                        !.stored = IF db_ok THEN Append(@, i) ELSE @,
                        !.analyzed = @ + 1]
    /\ UNCHANGED <<hvars, store, gen, ph, hook, calc>>

\* Lines 180-192: the result with analyzed_count.
AEnd ==
    /\ an.pc = "loop"
    /\ an.i = Len(an.messages)
    /\ an' = [an EXCEPT !.pc = "done", !.success = TRUE,
                        !.analyzed_count = an.analyzed]
    /\ UNCHANGED <<hvars, store, gen, ph, hook, calc>>

\* The job has returned.
AFinish ==
    /\ an.pc = "done"
    /\ an' = AIdle
    /\ UNCHANGED <<hvars, store, gen, ph, hook, calc>>

(***************************** specification *******************************)
Init ==
    /\ \E t \in TopicIds : event = NewEventTracking(t)
    /\ proposals = 0
    /\ calendar = [calls |-> 0, created |-> 0]
    /\ rh = [p \in RProcs |-> RIdle]
    /\ mh = [p \in MProcs |-> MIdle]
    /\ store = {}
    /\ gen = [ts |-> 0, uuid |-> 0]
    /\ ph = [p \in PProcs |-> PIdle]
    /\ hook = NoResponse
    /\ calc = NoCalc
    /\ an = AIdle

\* The bounds of the model: whether a further invocation may start.
RRoom(max) == Len(event.reactions) < max /\ proposals < MaxProposals
MRoom(max) == calendar.calls < max

\* Concurrent Lambda invocations: each step of each running invocation may
\* interleave with the others'.  The events delivered here are well-formed
\* events on the tracked message, handled by invocations whose clients were
\* constructed; every external call of the handlers may fail.
Next ==
    \/ \E p \in RProcs, u \in Users, a \in BOOLEAN :
          RRoom(MaxRaceReactions) /\ RStart(p, ReactionEvent(u, TrackedTs), TRUE, a)
    \/ \E p \in RProcs, d \in BOOLEAN : RAppend(p, d)
    \/ \E p \in RProcs, d \in BOOLEAN : RReread(p, d)
    \/ \E p \in RProcs, o \in PostOutcomes : RPost(p, o)
    \/ \E p \in RProcs, d \in BOOLEAN : RUpdate(p, d)
    \/ \E p \in RProcs : RFinish(p)
    \/ \E p \in OneReply, tx \in Replies :
          MRoom(MaxRaceCalls) /\ MStart(p, TrackedTs, FALSE, TRUE, FALSE, tx, TRUE)
    \/ \E p \in OneReply, d \in BOOLEAN : MGetEvent(p, d)
    \/ \E p \in OneReply, o \in ReplyPostOutcomes : MReprompt(p, o)
    \/ \E p \in OneReply, f \in BOOLEAN : MGetTopic(p, f)
    \/ \E p \in OneReply, o \in ReplyPostOutcomes : MNoAttendees(p, o)
    \/ \E p \in OneReply, a \in BOOLEAN : MCreate(p, a)
    \/ \E p \in OneReply, d \in BOOLEAN : MUpdate(p, d)
    \/ \E p \in OneReply, o \in ReplyPostOutcomes : MSummary(p, o)
    \/ \E p \in OneReply, o \in ReplyPostOutcomes : MErrorNotice(p, o)
    \/ \E p \in OneReply : MFinish(p)

Spec == Init /\ [][Next]_vars

\* Invocations handled one after another: an invocation starts only when no
\* other is running.  Events are arbitrary: malformed, on another message,
\* from a bot, outside a thread, or a direct schedule request.
Quiet == (\A p \in RProcs : ~RRunning(p)) /\ (\A p \in MProcs : ~MRunning(p))

SeqNext ==
    \/ \E u \in Users, ts \in MessageTs, d, a \in BOOLEAN :
          Quiet /\ RRoom(MaxReactions) /\ RStart("r1", ReactionEvent(u, ts), d, a)
    \/ \E ev \in MalformedReactionEvents, d, a \in BOOLEAN :
          Quiet /\ RRoom(MaxReactions) /\ RStart("r1", ev, d, a)
    \/ Quiet /\ RRoom(MaxReactions) /\ RInitFails("r1")
    \/ \E d \in BOOLEAN : RAppend("r1", d)
    \/ \E d \in BOOLEAN : RReread("r1", d)
    \/ \E o \in PostOutcomes : RPost("r1", o)
    \/ \E d \in BOOLEAN : RUpdate("r1", d)
    \/ RFinish("r1")
    \/ \E ts \in MessageTs, dr, th, b, d \in BOOLEAN, tx \in Replies :
          Quiet /\ MRoom(MaxCalls) /\ MStart("m1", ts, dr, th, b, tx, d)
    \/ Quiet /\ MRoom(MaxCalls) /\ MInitFails("m1")
    \/ \E d \in BOOLEAN : MGetEvent("m1", d)
    \/ \E o \in ReplyPostOutcomes : MReprompt("m1", o)
    \/ \E f \in BOOLEAN : MGetTopic("m1", f)
    \/ \E o \in ReplyPostOutcomes : MNoAttendees("m1", o)
    \/ \E a \in BOOLEAN : MCreate("m1", a)
    \/ \E d \in BOOLEAN : MUpdate("m1", d)
    \/ \E o \in ReplyPostOutcomes : MSummary("m1", o)
    \/ \E o \in ReplyPostOutcomes : MErrorNotice("m1", o)
    \/ MFinish("m1")

SeqSpec == Init /\ [][SeqNext]_vars

\* The end-to-end scenario: invocations handled one after another, every
\* event a well-formed one on the tracked message (a reaction, or a threaded
\* reply by a user) and every external call succeeding.
HappyNext ==
    \/ \E u \in Users :
          Quiet /\ RRoom(MaxReactions) /\ RStart("r1", ReactionEvent(u, TrackedTs), TRUE, TRUE)
    \/ RAppend("r1", TRUE)
    \/ RReread("r1", TRUE)
    \/ RPost("r1", "ok")
    \/ RUpdate("r1", TRUE)
    \/ RFinish("r1")
    \/ \E tx \in Replies :
          Quiet /\ MRoom(MaxCalls)
                /\ MStart("m1", TrackedTs, FALSE, TRUE, FALSE, tx, TRUE)
    \/ MGetEvent("m1", TRUE)
    \/ MReprompt("m1", "ok")
    \/ MGetTopic("m1", TRUE)
    \/ MNoAttendees("m1", "ok")
    \/ MCreate("m1", TRUE)
    \/ MUpdate("m1", TRUE)
    \/ MSummary("m1", "ok")
    \/ MFinish("m1")

HappySpec == Init /\ [][HappyNext]_vars

\* Reply texts with a duration: the recognizers' values for a reply whose
\* first line is a duration and whose second line is a date, such as
\* "0分\n12/10 15:00" or "30分\n12/10 15:00".
DurationReplies ==
    {[dt |-> <<900>>, dur |-> <<d>>] : d \in {0, 30}}

\* The webhook entry point with every external call succeeding: requests
\* handled one after another, each a url_verification, a reaction on the
\* tracked message or a threaded reply by a user, with or without a
\* duration.
WebhookNext ==
    \/ \E c \in Challenges : Quiet /\ UrlVerification(<<c>>)
    \/ Quiet /\ UrlVerification(<<>>)
    \/ \E u \in Users :
          Quiet /\ RRoom(MaxReactions) /\ RStart("r1", ReactionEvent(u, TrackedTs), TRUE, TRUE)
    \/ RAppend("r1", TRUE)
    \/ RReread("r1", TRUE)
    \/ RPost("r1", "ok")
    \/ RUpdate("r1", TRUE)
    \/ RFinish("r1")
    \/ \E tx \in Replies \cup DurationReplies :
          Quiet /\ MRoom(MaxCalls)
                /\ MStart("m1", TrackedTs, FALSE, TRUE, FALSE, tx, TRUE)
    \/ MGetEvent("m1", TRUE)
    \/ MReprompt("m1", "ok")
    \/ MGetTopic("m1", TRUE)
    \/ MNoAttendees("m1", "ok")
    \/ MCreate("m1", TRUE)
    \/ MUpdate("m1", TRUE)
    \/ MSummary("m1", "ok")
    \/ MFinish("m1")

WebhookSpec == Init /\ [][WebhookNext]_vars

\* Concurrent reaction invocations on the tracked message with every
\* external call succeeding.
ReactionRaceNext ==
    \/ \E p \in RProcs, u \in Users :
          RRoom(MaxReactions) /\ RStart(p, ReactionEvent(u, TrackedTs), TRUE, TRUE)
    \/ \E p \in RProcs : RAppend(p, TRUE)
    \/ \E p \in RProcs : RReread(p, TRUE)
    \/ \E p \in RProcs : RPost(p, "ok")
    \/ \E p \in RProcs : RUpdate(p, TRUE)
    \/ \E p \in RProcs : RFinish(p)

ReactionRaceSpec == Init /\ [][ReactionRaceNext]_vars

\* Concurrent reply invocations with every external call succeeding: the
\* reactions are handled one after another, then threaded replies on the
\* tracked message are resolved by invocations that interleave.
ReplyRaceNext ==
    \/ \E u \in Users :
          Quiet /\ RRoom(MaxReactions) /\ RStart("r1", ReactionEvent(u, TrackedTs), TRUE, TRUE)
    \/ RAppend("r1", TRUE)
    \/ RReread("r1", TRUE)
    \/ RPost("r1", "ok")
    \/ RUpdate("r1", TRUE)
    \/ RFinish("r1")
    \/ \E p \in MProcs, tx \in Replies :
          /\ \A r \in RProcs : ~RRunning(r)
          /\ MRoom(MaxCalls)
          /\ MStart(p, TrackedTs, FALSE, TRUE, FALSE, tx, TRUE)
    \/ \E p \in MProcs : MGetEvent(p, TRUE)
    \/ \E p \in MProcs : MReprompt(p, "ok")
    \/ \E p \in MProcs : MGetTopic(p, TRUE)
    \/ \E p \in MProcs : MNoAttendees(p, "ok")
    \/ \E p \in MProcs : MCreate(p, TRUE)
    \/ \E p \in MProcs : MUpdate(p, TRUE)
    \/ \E p \in MProcs : MSummary(p, "ok")
    \/ \E p \in MProcs : MFinish(p)

ReplyRaceSpec == Init /\ [][ReplyRaceNext]_vars

\* The analysis job on any channel history; its gateway calls may fail.
AnalyzerNext ==
    \/ \E h \in Histories, a \in BOOLEAN : AStart(h, a)
    \/ \E a, d \in BOOLEAN : AMessage(a, d)
    \/ AEnd
    \/ AFinish

AnalyzerSpec == Init /\ [][AnalyzerNext]_vars

\* The duration recognizer called on any text.
DurationNext == \E t \in DurationTexts : ParseDuration(t)

DurationSpec == Init /\ [][DurationNext]_vars

\* The scheduled poster: concurrent invocations, every external call may
\* fail.  store holds the EventTracking records they create.
PosterNext ==
    \/ \E p \in PProcs, k \in PostTypes, sel \in BOOLEAN : PStart(p, k, sel)
    \/ \E p \in PProcs, o \in PostOutcomes : PPost(p, o)
    \/ \E p \in PProcs : PPutItem(p)
    \/ \E p \in PProcs, d \in BOOLEAN : PPutEvent(p, d)
    \/ \E p \in PProcs : PFinish(p)

PosterSpec == Init /\ [][PosterNext]_vars

(******************************* claims ************************************)
DistinctUsers(reactions) == {reactions[i].user_id : i \in DOMAIN reactions}

\* C1 (as claimed): over reaction invocations handled one after another, the
\* proposal is posted at most once, and exactly once as soon as the record
\* has left collecting_reactions.  Refuted under SeqSpec: the status write
\* after a delivered proposal can fail without the handler noticing, and the
\* next reaction posts the proposal again.
C1_ProposalPostedOnce ==
    /\ proposals <= 1
    /\ (event.status # "collecting_reactions" => proposals = 1)

\* C2 (as claimed): a reaction invocation that read collecting_reactions with
\* a distinct count >= threshold and delivered the proposal has moved the
\* record to scheduling.  Refuted under SeqSpec by the ignored failure of
\* update_event_status.
C2_ProposalMeansScheduling ==
    \A p \in RProcs :
        (/\ rh[p].pc = "done"
         /\ rh[p].status = "collecting_reactions"
         /\ rh[p].count >= Threshold
         /\ rh[p].response = "ok")
        => /\ event.status = "scheduling"
           /\ rh[p].sent = <<Msg("proposal", TrackedTs, rh[p].count)>>

\* C3 (as claimed): the distinct-participant count, as counted by the handler
\* and by EventTracking.get_participant_count, is the number of unique acting
\* users among the recorded reactions.  Refuted: get_participant_count counts
\* distinct non-empty emails.
C3_CountIsDistinctUsers ==
    /\ ReactionCount(event.reactions) = Cardinality(DistinctUsers(event.reactions))
    /\ get_participant_count(event.reactions)
           = Cardinality(DistinctUsers(event.reactions))

NoReactorHasEmail ==
    \A i \in DOMAIN event.reactions : event.reactions[i].user_email = NoEmail

\* C4 (as claimed): schedule resolution that read scheduling, created the
\* calendar event and saw no step raise leaves the record completed with the
\* returned identifier and the derived title, has posted the summary and
\* returns event_created with that identifier.  Refuted under SeqSpec by the
\* ignored failure of update_event_status.
C4_CreatedMeansCompleted ==
    \A p \in MProcs :
        (/\ mh[p].pc = "done"
         /\ mh[p].status = "scheduling"
         /\ mh[p].cal # NoCalendarEvent
         /\ mh[p].err = None)
        => /\ event.status = "completed"
           /\ event.calendar_event_id = mh[p].cal
           /\ event.event_title = mh[p].title
           /\ mh[p].sent = <<Msg("summary", mh[p].ts, Len(mh[p].reactions))>>
           /\ mh[p].result = Result(TRUE, "event_created", None, mh[p].cal)

\* C5 (as claimed): when a step of schedule resolution raised, the record is
\* still in scheduling and the operation reports failure.  Refuted under
\* SeqSpec: the completion-summary post raises after the record was written
\* completed.
C5_FailureLeavesScheduling ==
    \A p \in MProcs :
        (/\ mh[p].pc = "done"
         /\ mh[p].status = "scheduling"
         /\ mh[p].err # None)
        => /\ event.status = "scheduling"
           /\ ~mh[p].result.success

\* C6 (as claimed): completed is terminal, no step changes the status of a
\* completed record.  Refuted under Spec: a reaction invocation that read
\* collecting_reactions writes scheduling over completed.
C6_CompletedIsTerminal ==
    [][event.status = "completed" => event'.status = "completed"]_vars

UnparseableReply(p) ==
    /\ MRunning(p)
    /\ mh[p].status = "scheduling"
    /\ mh[p].text.dt = <<>>

\* C8 (as claimed): a reply without parseable date/time to a record read in
\* scheduling ends with exactly one re-prompt in the thread and the success
\* result asked_datetime_again.  Refuted under SeqSpec: when the re-prompt
\* post raises, no re-prompt is delivered and the result is a failure.
C8_UnparseableAlwaysReprompts ==
    \A p \in MProcs :
        (UnparseableReply(p) /\ mh[p].pc = "done")
        => /\ mh[p].result = Result(TRUE, "asked_datetime_again", None, 0)
           /\ mh[p].sent = <<Msg("reprompt", mh[p].ts, 0)>>

\* C8 (amended): a reply without parseable date/time to a record read in
\* scheduling makes no calendar call and changes neither the record nor the
\* calendar; when the re-prompt post does not raise it ends with exactly one
\* re-prompt and the success result asked_datetime_again, and when it raises
\* it ends in the error path with a failure result and no re-prompt.
C8_UnparseableReprompts ==
    /\ [](\A p \in MProcs :
            (UnparseableReply(p) /\ mh[p].pc = "done")
            => /\ mh[p].calls = 0
               /\ mh[p].cal = NoCalendarEvent
               /\ event.status = "scheduling"
               /\ (mh[p].err = None
                     => /\ mh[p].result =
                             Result(TRUE, "asked_datetime_again", None, 0)
                        /\ mh[p].sent = <<Msg("reprompt", mh[p].ts, 0)>>)
               /\ (mh[p].err # None
                     => /\ ~mh[p].result.success
                        /\ \A i \in DOMAIN mh[p].sent :
                               mh[p].sent[i].kind = "error"))
    /\ [][(\E p \in MProcs : UnparseableReply(p))
            => UNCHANGED <<event, calendar, proposals>>]_vars

C8_RepromptReached ==
    \E p \in MProcs :
        /\ UnparseableReply(p)
        /\ mh[p].pc = "done"
        /\ mh[p].result.action = "asked_datetime_again"
        /\ mh[p].sent = <<Msg("reprompt", mh[p].ts, 0)>>

NotSchedulingRead(p) ==
    /\ MRunning(p)
    /\ mh[p].status \in {"collecting_reactions", "completed", "cancelled"}

\* C9: schedule resolution that read a status other than scheduling ends
\* with the neutral success result no_action, has posted nothing and called
\* the calendar zero times, and no step of it changes the record, the
\* calendar or the thread; a threaded reply to such a record is ignored by
\* handle_message_event with the same absence of effects.
C9_NotSchedulingIsNoOp ==
    /\ [](\A p \in MProcs :
            /\ (NotSchedulingRead(p)
                  => /\ mh[p].pc = "done"
                     /\ mh[p].result = Result(TRUE, "no_action", None, 0)
                     /\ mh[p].sent = <<>>
                     /\ mh[p].calls = 0
                     /\ mh[p].cal = NoCalendarEvent)
            /\ (mh[p].result.error = "not_scheduling"
                  => /\ mh[p].result.success
                     /\ mh[p].sent = <<>>
                     /\ mh[p].calls = 0))
    /\ [][(\E p \in MProcs :
              \/ NotSchedulingRead(p)
              \/ mh[p].pc = "get_event" /\ ~(event.status = "scheduling")
              \/ mh'[p].result.error = "not_scheduling")
            => UNCHANGED <<event, calendar, proposals>>]_vars

C9_NoActionOnCompleted ==
    \E p \in MProcs :
        /\ mh[p].pc = "done"
        /\ mh[p].status = "completed"
        /\ event.status = "completed"
        /\ mh[p].result.action = "no_action"

ReadyToPropose(p) ==
    /\ rh[p].status = "collecting_reactions"
    /\ rh[p].count >= Threshold

\* C10: nothing in a reaction invocation looks at the other one: every
\* invocation that read collecting_reactions with a distinct count at or
\* above the threshold goes on to post the proposal, every delivered post
\* is a proposal in the thread, and so two concurrent invocations can both
\* deliver one (reached in C10_BothPosted).
C10_EveryReadyInvocationPosts ==
    /\ \A p \in RProcs :
         ReadyToPropose(p)
         => /\ rh[p].pc = "post" \/ rh[p].response # None
            /\ (rh[p].response = "ok"
                  => rh[p].sent = <<Msg("proposal", rh[p].ts, rh[p].count)>>)
    /\ proposals >= Cardinality({p \in RProcs : rh[p].response = "ok"})

C10_BothPosted ==
    /\ \A p \in RProcs :
         /\ ReadyToPropose(p)
         /\ rh[p].response = "ok"
         /\ rh[p].pc = "update"
    /\ event.status = "collecting_reactions"
    /\ proposals = 2

SomeReactorHasEmail ==
    \E i \in DOMAIN event.reactions : event.reactions[i].user_email # NoEmail

\* C11: end to end with every external call succeeding (HappySpec): below
\* the threshold no proposal is posted and the status is
\* collecting_reactions; once reactions by threshold-many distinct users are
\* handled exactly one proposal is posted and the status has left
\* collecting_reactions, however many reactions follow; an unparseable
\* reply ends with one re-prompt and status scheduling; a parseable reply on
\* a record with an attendee email ends with event_created, exactly one
\* calendar creation call whose end is start + 60 minutes, and status
\* completed.
C11_EndToEnd ==
    /\ proposals <= 1
    /\ (ReactionCount(event.reactions) < Threshold
          => proposals = 0 /\ event.status = "collecting_reactions")
    /\ (Quiet /\ ReactionCount(event.reactions) >= Threshold
          => proposals = 1 /\ event.status \in {"scheduling", "completed"})
    /\ calendar.calls <= 1
    /\ (event.status = "completed" => calendar.calls = 1)
    /\ (Quiet /\ calendar.calls = 1 => event.status = "completed")
    /\ \A p \in MProcs :
         /\ (mh[p].pc = "done" /\ mh[p].status = "scheduling"
               /\ mh[p].text.dt = <<>>)
              => /\ mh[p].sent = <<Msg("reprompt", TrackedTs, 0)>>
                 /\ mh[p].result.action = "asked_datetime_again"
                 /\ event.status = "scheduling"
         /\ (mh[p].pc = "done" /\ mh[p].status = "scheduling"
               /\ mh[p].text.dt # <<>> /\ SomeReactorHasEmail)
              => /\ mh[p].result = Result(TRUE, "event_created", None, mh[p].cal)
                 /\ mh[p].calls = 1
                 /\ calendar = [calls |-> 1, created |-> 1]
                 /\ mh[p].start = mh[p].text.dt[1]
                 /\ mh[p].end = mh[p].start + 60
                 /\ event.status = "completed"
                 /\ event.calendar_event_id = mh[p].cal

C11_Completed ==
    /\ Cardinality(DistinctUsers(event.reactions)) = MaxReactions
    /\ proposals = 1
    /\ event.status = "completed"
    /\ calendar.calls = 1
    /\ \E p \in MProcs :
         /\ mh[p].pc = "done"
         /\ mh[p].result.action = "event_created"
         /\ mh[p].end = mh[p].start + 60

\* C12 (as claimed): a reaction invocation that returns reaction_recorded or
\* meeting_proposed has its reaction in the persisted record, and with
\* meeting_proposed the persisted status is scheduling: a failed storage
\* write is never reported as a success.  Refuted under SeqSpec: the False
\* returned by add_reaction_to_event and update_event_status is not read.
C12_SuccessMeansWritten ==
    [][\A p \in RProcs :
         (/\ rh[p].pc \in {"reread", "post", "update"}
          /\ rh'[p].pc = "done"
          /\ rh'[p].result.action \in {"reaction_recorded", "meeting_proposed"})
         => /\ rh[p].user \in DistinctUsers(event'.reactions)
            /\ (rh'[p].result.action = "meeting_proposed"
                  => event'.status = "scheduling")]_vars

\* C13 (as claimed): schedule resolution that finds no EventTracking, or no
\* Topic for the record's topic_id, returns a success result and has posted
\* nothing.  Refuted under SeqSpec: the first returns the failure 'Event not
\* found', the second raises on topic.get and takes the error path.
C13_NotFoundIsBenign ==
    \A p \in MProcs :
        (/\ mh[p].pc = "done"
         /\ mh[p].result.error \in {"Event not found", "AttributeError"})
        => /\ mh[p].result.success
           /\ mh[p].sent = <<>>

\* C14: every webhook invocation that has ended has a result and a response
\* status, whichever call raised (the error-notice post included): no
\* exception leaves it, and the status is 200 exactly when the result has
\* success true and 500 when it has success false.
C14_ResponseMatchesResult ==
    /\ \A p \in RProcs :
         rh[p].pc = "done"
         => /\ rh[p].result.action # "raised"
            /\ (rh[p].statusCode = 200) = rh[p].result.success
            /\ (rh[p].statusCode = 500) = ~rh[p].result.success
    /\ \A p \in MProcs :
         (mh[p].pc = "done" /\ ~mh[p].direct)
         => /\ mh[p].result.action # "raised"
            /\ (mh[p].statusCode = 200) = mh[p].result.success
            /\ (mh[p].statusCode = 500) = ~mh[p].result.success

C14_ErrorNoticeFailed ==
    \E p \in MProcs :
        /\ mh[p].pc = "done"
        /\ ~mh[p].direct
        /\ mh[p].err # None
        /\ mh[p].sent = <<>>
        /\ mh[p].result = Result(FALSE, None, "Failed to post message", 0)
        /\ mh[p].statusCode = 500

IsPrefix(s, t) == Len(s) <= Len(t) /\ SubSeq(t, 1, Len(s)) = s

\* C15: in every step of every invocation, concurrent ones included, the
\* previous reactions sequence of the record is a prefix of the new one: no
\* recorded reaction is removed, reordered or overwritten.
C15_ReactionsOnlyGrow ==
    [][IsPrefix(event.reactions, event'.reactions)]_vars

C15_ConcurrentAppends ==
    /\ \A p \in RProcs : rh[p].pc = "reread"
    /\ Len(event.reactions) = 2
    /\ DistinctUsers(event.reactions) = {rh[p].user : p \in RProcs}

BelowThreshold(p) ==
    /\ rh[p].status = "collecting_reactions"
    /\ rh[p].count < Threshold

\* C17: a reaction invocation (handled alone) that read collecting_reactions
\* with a distinct count below the threshold returns reaction_recorded with
\* that count and has posted nothing; its append step changes nothing of the
\* record but the reactions, which gain at most the one reaction, and no
\* other step of it changes the record, the thread or the calendar: status,
\* title, topic reference and calendar-event identifier stay as they were.
C17_BelowThresholdOnlyAppends ==
    /\ [](\A p \in RProcs :
            BelowThreshold(p)
            => /\ rh[p].pc = "done"
               /\ rh[p].result =
                     Result(TRUE, "reaction_recorded", None, rh[p].count)
               /\ rh[p].sent = <<>>
               /\ rh[p].response = None
               /\ event.status = "collecting_reactions"
               /\ event.event_title = None
               /\ event.calendar_event_id = NoCalendarEvent)
    /\ [][\A p \in RProcs :
            /\ (rh[p].pc = "append"
                  => /\ event' = [event EXCEPT !.reactions = event'.reactions]
                     /\ event'.reactions \in
                          {event.reactions,
                           Append(event.reactions,
                                  [user_id |-> rh[p].user,
                                   user_email |-> rh[p].email])}
                     /\ UNCHANGED <<proposals, calendar>>)
            /\ (rh[p].pc = "reread" \/ BelowThreshold(p)
                  => UNCHANGED <<event, proposals, calendar>>)]_vars

C17_RecordedBelowThreshold ==
    \E p \in RProcs :
        /\ BelowThreshold(p)
        /\ rh[p].pc = "done"
        /\ rh[p].count = 1
        /\ Len(event.reactions) = 1
        /\ rh[p].user = event.reactions[1].user_id
        /\ rh[p].result.action = "reaction_recorded"

\* C18: a reaction invocation for a message that no EventTracking refers to
\* ends at once with the success result ignored: it has resolved no user,
\* read no status and posted nothing, and the step changes neither the
\* record nor the thread nor the calendar.
C18_UntrackedIsIgnored ==
    /\ [](\A p \in RProcs :
            rh[p].ts = OtherTs
            => /\ rh[p].pc = "done"
               /\ rh[p].result = Result(TRUE, "ignored", None, 0)
               /\ rh[p].user = None
               /\ rh[p].email = NoEmail
               /\ rh[p].status = None
               /\ rh[p].sent = <<>>)
    /\ [][\A p \in RProcs :
            (rh[p].ts = OtherTs \/ rh'[p].ts = OtherTs)
            => UNCHANGED <<event, proposals, calendar>>]_vars

C18_IgnoredReached ==
    \E p \in RProcs :
        /\ rh[p].pc = "done"
        /\ rh[p].ts = OtherTs
        /\ rh[p].result.action = "ignored"
        /\ Len(event.reactions) > 0

\* C19: a reaction invocation for an event that lacks a required field
\* (reaction, user, channel or timestamp) ends at once with the failure
\* 'Missing required fields': it has looked up no record and no user and
\* posted nothing, and the step changes neither the record nor the thread
\* nor the calendar.
C19_MissingFieldsFail ==
    /\ [](\A p \in RProcs :
            rh[p].missing # {}
            => /\ rh[p].pc = "done"
               /\ rh[p].result =
                     Result(FALSE, None, "Missing required fields", 0)
               /\ rh[p].ts = None
               /\ rh[p].user = None
               /\ rh[p].email = NoEmail
               /\ rh[p].status = None
               /\ rh[p].sent = <<>>)
    /\ [][\A p \in RProcs :
            (rh[p].missing # {} \/ rh'[p].missing # {})
            => UNCHANGED <<event, proposals, calendar>>]_vars

C19_MissingTimestamp ==
    \E p \in RProcs :
        /\ rh[p].pc = "done"
        /\ rh[p].missing = {"ts"}
        /\ ~rh[p].result.success
        /\ event.status = "scheduling"

NonTerminal(r) == r.status \in {"collecting_reactions", "scheduling"}

\* C16: with the chat gateway returning a fresh timestamp for each posted
\* message, no two EventTracking records in a non-terminal status refer to
\* the same (channel, message timestamp) pair, and no two records share an
\* identifier.
C16_OneTrackingPerMessage ==
    \A a, b \in store :
        /\ (/\ NonTerminal(a) /\ NonTerminal(b)
            /\ a.channel_id = b.channel_id
            /\ a.slack_message_ts = b.slack_message_ts) => a = b
        /\ a.event_tracking_id = b.event_tracking_id => a = b

C16_TwoTracked ==
    /\ Cardinality(store) = 2
    /\ \A r \in store : NonTerminal(r)
    /\ \A p \in PProcs : ph[p].pc = "done" /\ ph[p].result.success

TrackingsOf(p) ==
    {r \in store : r.slack_message_ts = ph[p].ts /\ r.channel_id = Channel}

\* C20 (as claimed): a scheduled-post invocation that reports success has
\* created exactly one EventTracking for the message it posted, in
\* collecting_reactions, without reactions and calendar-event identifier,
\* with topic_id set exactly for a topic post.  Refuted under PosterSpec:
\* the False returned by put_event is not read.
C20_SuccessMeansTracked ==
    \A p \in PProcs :
        (ph[p].pc = "done" /\ ph[p].result.success)
        => /\ Cardinality(TrackingsOf(p)) = 1
           /\ \A r \in TrackingsOf(p) :
                /\ r.status = "collecting_reactions"
                /\ r.reactions = <<>>
                /\ r.calendar_event_id = NoCalendarEvent
                /\ (r.topic_id # <<>>) = (ph[p].post_type = "random_topic")

NotForTheBot(m) == ~m.in_thread \/ m.bot_id

\* C21: a message event without thread_ts, and one with a bot_id (the bot's
\* own posts in the thread among them), ends at once with the success
\* result ignored: no record is read for scheduling, nothing is posted, the
\* calendar is not called, and the step changes neither the record nor the
\* thread nor the calendar.
C21_BotAndTopLevelIgnored ==
    /\ [](\A p \in MProcs :
            NotForTheBot(mh[p])
            => /\ mh[p].pc = "done"
               /\ mh[p].result.success
               /\ mh[p].result.action = "ignored"
               /\ mh[p].result.error =
                     (IF ~mh[p].in_thread THEN "not_thread_message"
                      ELSE "bot_message")
               /\ mh[p].statusCode = 200
               /\ mh[p].status = None
               /\ mh[p].sent = <<>>
               /\ mh[p].calls = 0)
    /\ [][(\E p \in MProcs : NotForTheBot(mh[p]) \/ NotForTheBot(mh'[p]))
            => UNCHANGED <<event, proposals, calendar>>]_vars

C21_BotReplyInScheduling ==
    \E p \in MProcs :
        /\ mh[p].pc = "done"
        /\ mh[p].bot_id
        /\ mh[p].in_thread
        /\ mh[p].ts = TrackedTs
        /\ event.status = "scheduling"
        /\ mh[p].result.error = "bot_message"

ReactorEmails(reactions) ==
    {reactions[i].user_email : i \in DOMAIN reactions} \ {NoEmail}

\* C22: whenever schedule resolution has called the calendar, the attendees
\* it passed are exactly the non-empty emails among the reactions of the
\* record it read: the set is non-empty, holds no empty email, and holds the
\* email of every reactor who has one (once, however often they reacted).
C22_AttendeesAreReactorEmails ==
    \A p \in MProcs :
        mh[p].calls > 0
        => /\ mh[p].attendees = ReactorEmails(mh[p].reactions)
           /\ mh[p].attendees # {}
           /\ NoEmail \notin mh[p].attendees
           /\ mh[p].reactions = event.reactions
           /\ \A i \in DOMAIN event.reactions :
                event.reactions[i].user_email # NoEmail
                => event.reactions[i].user_email \in mh[p].attendees

C22_CalledWithOneOfThree ==
    \E p \in MProcs :
        /\ mh[p].calls > 0
        /\ Len(mh[p].reactions) = 3
        /\ mh[p].reactions[1].user_email = NoEmail
        /\ mh[p].reactions[2].user_email # NoEmail
        /\ mh[p].reactions[3].user_email # NoEmail
        /\ Cardinality(mh[p].attendees) = 1

\* C23 (as claimed): in every calendar creation call of schedule resolution
\* the end time is the start time plus d minutes, d being the value the
\* duration recognizer returns for the reply text whenever it returns one,
\* 0 included, and 60 only when it returns nothing.  Refuted under
\* WebhookSpec: for a reply whose recognized duration is 0 the handler uses
\* 60 minutes.
C23_EndIsStartPlusRecognized ==
    \A p \in MProcs :
        mh[p].calls > 0 =>
            mh[p].end = mh[p].start + (IF mh[p].text.dur = <<>> THEN 60
                                       ELSE mh[p].text.dur[1])

\* C24: in every reachable state the status of the EventTracking is one of
\* collecting_reactions, scheduling and completed; cancelled is never
\* written, whatever the interleaving of the invocations and whichever
\* external calls fail.
C24_NeverCancelled ==
    /\ event.status \in EventStatuses \ {"cancelled"}
    /\ \A e \in store : e.status \in EventStatuses \ {"cancelled"}

\* C24 witness: the record has been through both status writes, the one to
\* scheduling by two invocations.
C24_WrittenTwiceThenCompleted ==
    /\ event.status = "completed"
    /\ proposals = 2

\* C25: a url_verification request that provides a challenge is answered
\* with status 200 and a body whose challenge field reads back as the
\* provided token, character for character, and answering it changes no
\* record and calls no gateway: the EventTracking records, the posted
\* messages, the calendar and the running invocations stay as they were.
C25_ChallengeEchoed ==
    /\ [](hook.given # <<>> =>
            /\ hook.statusCode = 200
            /\ ChallengeField(hook.challenge) = hook.given[1])
    /\ [][hook' # hook =>
            UNCHANGED <<event, proposals, calendar, rh, mh, store, gen, ph>>]_vars

\* C25 witness: a token made of a backslash and a quote has been answered
\* while a completed record and its calendar event exist.
C25_EscapedTokenAnswered ==
    /\ hook.statusCode = 200
    /\ hook.given = << <<"\\", "\"">> >>
    /\ event.status = "completed"
    /\ calendar.created = 1

\* C26 (as claimed): parse_duration accepts English durations: for the text
\* "N hours" it returns 60*N and for "N minutes" it returns N.  Refuted
\* under DurationSpec: none of the four patterns matches an English unit,
\* and the recognizer returns None for both texts.
C26_EnglishAccepted ==
    \A n \in DurationNumbers :
        /\ calc.text = <<Num(n), Tok("space"), Tok("hours")>>
              => calc.result = <<60 * n>>
        /\ calc.text = <<Num(n), Tok("space"), Tok("minutes")>>
              => calc.result = <<n>>

\* Every reaction invocation has returned.
ReactionsFinished == \A p \in RProcs : rh[p].pc \in {"idle", "done"}

\* C27: no trigger is lost under concurrency.  With every external call
\* succeeding and whatever the interleaving of the invocations, once all
\* of them have returned and reactions by at least threshold distinct users
\* are recorded, at least one proposal has been posted and the status is
\* scheduling.
C27_NoLostTrigger ==
    (ReactionsFinished /\ ReactionCount(event.reactions) >= Threshold)
        => (proposals >= 1 /\ event.status = "scheduling")

\* C27 witness: two invocations appended before either re-read, so that
\* both read a count above the threshold, and both have returned.
C27_BothReadAboveThreshold ==
    /\ ReactionsFinished
    /\ \A p \in RProcs : rh[p].pc = "done" /\ rh[p].count = Threshold + 1
    /\ proposals >= 1

\* C28 (as claimed): at most one calendar event is created for the tracked
\* item, over any sequence or interleaving of threaded-reply invocations.
\* Refuted under ReplyRaceSpec, with every external call succeeding: two
\* reply invocations both read scheduling before either writes completed,
\* and each creates a calendar event.
C28_AtMostOneCalendarEvent == calendar.created <= 1

\* C29 (as claimed): in every reachable state the EventTracking has a
\* calendar-event identifier and a persisted title if and only if its status
\* is completed.  Refuted under Spec: a reaction invocation that read
\* collecting_reactions writes scheduling over completed and leaves the
\* identifier and the title in place.
C29_CalendarIdIffCompleted ==
    /\ (event.calendar_event_id # NoCalendarEvent) <=> (event.status = "completed")
    /\ (event.event_title # None) <=> (event.status = "completed")

\* The fetched messages a Conversation is due for: not from a bot, without
\* subtype, with a text of at least 10 characters and with at least 2
\* reactions in the list get_reactions returns.
Qualifying(messages) ==
    {i \in DOMAIN messages :
        /\ ~messages[i].bot_id
        /\ ~messages[i].subtype
        /\ messages[i].long
        /\ Len(get_reactions(messages[i])) >= 2}

\* C30 (as claimed): a run of the analysis job that returns success has
\* stored one Conversation for every qualifying message and for no other,
\* and its analyzed_count is the number of qualifying messages.  Refuted
\* under AnalyzerSpec: the entries get_reactions returns carry no count, the
\* job's reaction count is 0 for every message, and nothing is stored.
C30_StoresEveryQualifyingMessage ==
    (an.pc = "done" /\ an.success) =>
        /\ {an.stored[k] : k \in DOMAIN an.stored} = Qualifying(an.messages)
        /\ an.analyzed_count = Cardinality(Qualifying(an.messages))
====
